---- MODULE Spec2Model ----
(***************************************************************************)
(* Model of src/problems/problem9.rs: the rectilinear polygon built from   *)
(* the puzzle's vertex list, the point and rectangle containment tests,    *)
(* and the two answers of solve; and of the crate's other problems         *)
(* (lib.rs, shared.rs, problem3, 4, 5, 7, 8 and 11), each with variables   *)
(* and a specification of its own.                                         *)
(*                                                                         *)
(* Coordinates are usize in the source; x grows to the right and y grows   *)
(* downward ("Down" is the direction of increasing y).                     *)
(***************************************************************************)
EXTENDS Integers, Sequences, FiniteSets, TLC

VARIABLES
    points,            \* Vec<Point> produced so far by build_points
    pc,                \* "parse" | "built" | "done" | "panic"
    borders,           \* Polygon.borders
    concave_vertices,  \* Polygon.concave_vertices
    panic,             \* "none" | "unwrap" | "Impossible turn"
    query,             \* the last containment query and its answer
    answer,            \* Answer { part1, part2 } of solve
    asked              \* how many containment queries this polygon answered

problem9_vars ==
    <<points, pc, borders, concave_vertices, panic, query, answer, asked>>

\* problem01 (lib.rs): the dial of the safe
VARIABLES
    position,          \* Safe.position
    turns,             \* how many times Safe::turn was called
    last_turn          \* the last call of Safe::turn and what it returned

problem01_vars == <<position, turns, last_turn>>

\* problem8: the junction boxes and their circuits
VARIABLES
    junctions,            \* Vec<Junction>: location and circuit_id, by id
    id_to_circuit,        \* HashMap<CircuitId, Circuit>: the junction lists
    heap,                 \* BinaryHeap<StringOfLights>
    connections_to_make,  \* the parameter of solve
    circuits_remaining,
    connections_made,
    part1_answer,
    part2_answer,
    processed,            \* the strings of lights popped so far, in order
    pc8                   \* "read" | "loop" | "done"

problem8_vars ==
    <<junctions, id_to_circuit, heap, connections_to_make, circuits_remaining,
      connections_made, part1_answer, part2_answer, processed, pc8>>

\* problem3: one battery bank
VARIABLES
    joltages,          \* BatteryBank.joltages, as the digits of the string
    max_batteries,     \* the parameter of maximum_joltage
    selected,          \* the selected digits, highest order first
    digit_iter,        \* how many digits the reversed iterator has left
    joltage,           \* the value maximum_joltage returned
    pc3                \* "bank" | "select" | "done"

problem3_vars ==
    <<joltages, max_batteries, selected, digit_iter, joltage, pc3>>

\* problem5: the inventory of fresh ingredient ranges
VARIABLES
    ranges,             \* the IngredientRange of each input line
    fresh_ingredients,  \* ComplicatedInventoryManagmentSystem.fresh_ingredients
    fresh_check,        \* the last call of is_ingredient_fresh and its answer
    pc5                 \* "lines" | "loaded" | "panic"

problem5_vars == <<ranges, fresh_ingredients, fresh_check, pc5>>

\* problem11: the devices and the path counts
VARIABLES
    devices,           \* the input lines: a label and the labels it outputs to
    paths_answer,      \* Answer { part1, part2 } of problem11::solve
    pc11               \* "lines" | "done"

problem11_vars == <<devices, paths_answer, pc11>>

\* problem4: the diagram of paper rolls
VARIABLES
    diagram,                \* HelpfulDiagram
    input_rolls,            \* the cells that hold '@' in the input
    removed_rolls,          \* the cells remove_roll_recursive cleared, in order
    can_initially_remove,
    can_eventually_remove,
    scan,                   \* the step of the second loop of solve
    calls,                  \* the calls of remove_roll_recursive in progress
    pc4                     \* "input" | "parsed" | "removing" | "done"

problem4_vars ==
    <<diagram, input_rolls, removed_rolls, can_initially_remove,
      can_eventually_remove, scan, calls, pc4>>

\* shared.rs: one NumericPartitionIterator
VARIABLES
    to_split,          \* the arguments of NumericPartitionIterator::new
    partition_size,
    remaining,         \* NumericPartitionIterator.remaining
    divisor,           \* NumericPartitionIterator.divisor
    yielded,           \* the values next returned in Some, in order
    pc_iter            \* "new" | "iterating" | "ended" | "panic"

shared_vars ==
    <<to_split, partition_size, remaining, divisor, yielded, pc_iter>>

\* problem7: the tachyon manifold
VARIABLES
    rows,                \* the input lines analysed so far
    possible_timelines,  \* TachyonParticleAnalyzer.possible_timelines
    splits,              \* TachyonParticleAnalyzer.splits
    pc7                  \* "rows" | "panic"

problem7_vars == <<rows, possible_timelines, splits, pc7>>

\* the state of the crate's other problems
other_problems ==
    <<problem01_vars, problem8_vars, problem3_vars, problem5_vars,
      problem11_vars, problem4_vars, shared_vars, problem7_vars>>

vars == <<problem9_vars, other_problems>>

----------------------------------------------------------------------------
(* Bounds *)

\* general vertex lists: coordinates 0..MaxCoord, at most MaxPoints lines
MaxCoord == 2
MaxPoints == 4

\* simple rectilinear polygons: coordinates 0..SimpleMaxCoord
SimpleMaxCoord == 3
SimpleMaxVertices == 8

\* simple rectilinear polygons whose first vertex is the origin
WideMaxCoord == 4
WideMaxVertices == 10

\* polygons that answer up to MaxQueries queries about any lattice points
QueryMaxCoord == 2
QueryMaxVertices == 6
MaxQueries == 2

\* problem01: i32 is modelled with I32Bits bits and usize with UsizeBits bits;
\* a safe is turned at most MaxTurns times
I32Bits == 10
UsizeBits == 12
MaxTurns == 2

\* problem8: at most MaxJunctions junctions with coordinates
\* 1..JunctionMaxCoord, and 0..MaxConnections connections to make
MaxJunctions == 4
JunctionMaxCoord == 2
MaxConnections == 3

\* problem3: banks of at most MaxBankLen digits 0..MaxDigit, and
\* 0..MaxBatteries batteries to switch on
MaxBankLen == 6
MaxDigit == 3
MaxBatteries == 3

\* problem5: at most MaxRanges ranges with bounds 0..MaxIngredientId
MaxRanges == 3
MaxIngredientId == 4

\* problem11: at most MaxDevices input lines
MaxDevices == 4

\* problem4: diagrams of at most MaxWidth by MaxHeight cells that hold at
\* most MaxRolls rolls or have at most MaxGaps cells without a roll
MaxWidth == 5
MaxHeight == 4
MaxRolls == 5
MaxGaps == 2

\* shared.rs: usize is modelled with UsizeBits bits; partition sizes of at
\* most MaxPartitionSize digits, and at most MaxYields values taken from one
\* iterator
MaxPartitionSize == 4
MaxYields == 5

\* problem7: grids of at most MaxGridWidth columns and MaxGridRows rows that
\* hold at most MaxSplitters splitters
MaxGridWidth == 5
MaxGridRows == 4
MaxSplitters == 4

----------------------------------------------------------------------------
(* problem01: Safe *)

i32_min == -(2 ^ (I32Bits - 1))
i32_max == 2 ^ (I32Bits - 1) - 1
i32 == i32_min..i32_max

\* two's complement wrap of an i32 result
wrap_i32(n) == ((n - i32_min) % (2 ^ I32Bits)) + i32_min

\* n as usize
as_usize(n) == n % (2 ^ UsizeBits)

\* i32 division, which truncates toward zero
div(a, b) == IF a >= 0 THEN a \div b ELSE -((-a) \div b)

\* variant: a rotation to the left that starts at zero counts its start
count_zero_clicks_from_zero(start, end) ==
    IF end > 0
    THEN as_usize(div(end, 100))
    ELSE as_usize(div(wrap_i32(-end), 100)) + 1

\* the value count_zero_clicks returns when -end wraps
count_zero_clicks(start, end) ==
    IF end > 0
    THEN as_usize(div(end, 100))
    ELSE LET zero_clicks == as_usize(div(wrap_i32(-end), 100))
         IN  IF start = 0 THEN zero_clicks ELSE zero_clicks + 1

\* the i32 operations of turn that overflow: start + amount, and -end
turn_overflows(start, amount) ==
    \/ start + amount \notin i32
    \/ start + amount = i32_min

NoTurn == [start |-> 50, amount |-> 0, outcome |-> "none", zero_clicks |-> 0]

\* Safe::turn(amount); an overflow panics in a build with overflow checks and
\* wraps in a build without them
turn(amount) ==
    /\ last_turn.outcome # "overflow panic"
    /\ turns' = turns + 1
    /\ LET start == position
           end == wrap_i32(start + amount)
       IN  \/ /\ position' = end % 100
              /\ last_turn' = [start |-> start, amount |-> amount,
                               outcome |-> "returned",
                               zero_clicks |-> count_zero_clicks(start, end)]
           \/ /\ turn_overflows(start, amount)
              /\ position' = position
              /\ last_turn' = [start |-> start, amount |-> amount,
                               outcome |-> "overflow panic",
                               zero_clicks |-> 0]
    /\ UNCHANGED <<problem9_vars, problem8_vars, problem3_vars,
                   problem5_vars, problem11_vars,
                   problem4_vars,
                   shared_vars, problem7_vars>>

\* the safe is turned by any i32 amount
Turn ==
    /\ turns < MaxTurns
    /\ \E amount \in i32 : turn(amount)

----------------------------------------------------------------------------
(* problem8: junctions, strings of lights and circuits *)

\* JunctionId and CircuitId are the 0-based line numbers in the source; here
\* they are the 1-based positions in junctions

\* the square of calculate_length: sqrt and the bit order of a non-negative
\* f64 both keep the order of the squares
calculate_length(start, end) ==
    (start[1] - end[1]) * (start[1] - end[1])
    + (start[2] - end[2]) * (start[2] - end[2])
    + (start[3] - end[3]) * (start[3] - end[3])

StringOfLights(js, a, b) ==
    [start |-> a, end |-> b,
     length |-> calculate_length(js[a].location, js[b].location)]

\* the heap after the double loop over the circuits: every pair idx_a < idx_b
all_strings(js) ==
    {StringOfLights(js, pr[1], pr[2]) :
        pr \in {q \in (1..Len(js)) \X (1..Len(js)) : q[2] > q[1]}}

\* variant: pop returns any string of the heap
may_pop_any(h) == h

\* what heap.pop() may return: a string of least length (the heap does not
\* say which one of several)
may_pop(h) == {l \in h : \A m \in h : l.length <= m.length}

\* the ids of the count largest circuits of ids
RECURSIVE largest(_, _, _)
largest(circuits, ids, count) ==
    IF count = 0 \/ ids = {}
    THEN {}
    ELSE LET big == CHOOSE c \in ids :
                        \A d \in ids : Len(circuits[c]) >= Len(circuits[d])
         IN  {big} \cup largest(circuits, ids \ {big}, count - 1)

RECURSIVE product(_, _)
product(circuits, ids) ==
    IF ids = {}
    THEN 1
    ELSE LET c == CHOOSE c \in ids : TRUE
         IN  Len(circuits[c]) * product(circuits, ids \ {c})

\* sizes.iter().rev().take(3).product() of the sorted sizes
three_largest_product(circuits) ==
    product(circuits, largest(circuits, DOMAIN circuits, 3))

\* one input line "x,y,z" becomes a Junction in a circuit of its own
read_junction(x, y, z) ==
    /\ pc8 = "read"
    /\ junctions' = Append(junctions, [location |-> <<x, y, z>>,
                                       circuit_id |-> Len(junctions) + 1])
    /\ UNCHANGED <<id_to_circuit, heap, connections_to_make,
                   circuits_remaining, connections_made, part1_answer,
                   part2_answer, processed, pc8>>
    /\ UNCHANGED <<problem9_vars, problem01_vars, problem3_vars,
                   problem5_vars, problem11_vars,
                   problem4_vars,
                   shared_vars, problem7_vars>>

\* solve(input, connections_to_make) from the circuits to the first pop
build_heap(k) ==
    /\ pc8 = "read"
    /\ connections_to_make' = k
    /\ id_to_circuit' = [c \in 1..Len(junctions) |-> <<c>>]
    /\ heap' = all_strings(junctions)
    /\ circuits_remaining' = Len(junctions)
    /\ connections_made' = 0
    /\ part1_answer' = 0
    /\ part2_answer' = 0
    /\ pc8' = "loop"
    /\ UNCHANGED <<junctions, processed>>
    /\ UNCHANGED <<problem9_vars, problem01_vars, problem3_vars,
                   problem5_vars, problem11_vars,
                   problem4_vars,
                   shared_vars, problem7_vars>>

\* one turn of the while loop
connect ==
    /\ pc8 = "loop"
    /\ \E lights \in may_pop(heap) :
          LET junction_start == junctions[lights.start]
              junction_end == junctions[lights.end]
              other == junction_end.circuit_id
              new_circuit_id == junction_start.circuit_id
          IN  /\ heap' = heap \ {lights}
              /\ processed' = Append(processed, lights)
              /\ part1_answer' =
                    IF connections_made = connections_to_make
                    THEN three_largest_product(id_to_circuit)
                    ELSE part1_answer
              /\ connections_made' = connections_made + 1
              /\ IF new_circuit_id = other
                 THEN \* continue
                      UNCHANGED <<junctions, id_to_circuit, circuits_remaining,
                                  part2_answer, pc8>>
                 ELSE IF other \notin DOMAIN id_to_circuit
                 THEN \* expect("junction_end.circuit_id should exist")
                      /\ pc8' = "panic"
                      /\ UNCHANGED <<junctions, id_to_circuit,
                                     circuits_remaining, part2_answer>>
                 ELSE /\ id_to_circuit' =
                           [c \in DOMAIN id_to_circuit \ {other} |->
                               IF c = new_circuit_id
                               THEN id_to_circuit[c] \o id_to_circuit[other]
                               ELSE id_to_circuit[c]]
                      /\ junctions' =
                           [j \in 1..Len(junctions) |->
                               IF \E i \in 1..Len(id_to_circuit[other]) :
                                      id_to_circuit[other][i] = j
                               THEN [junctions[j] EXCEPT
                                        !.circuit_id = new_circuit_id]
                               ELSE junctions[j]]
                      /\ circuits_remaining' = circuits_remaining - 1
                      /\ IF circuits_remaining - 1 = 1
                         THEN /\ part2_answer' =
                                    junction_start.location[1]
                                    * junction_end.location[1]
                              /\ pc8' = "done"
                         ELSE UNCHANGED <<part2_answer, pc8>>
    /\ UNCHANGED connections_to_make
    /\ UNCHANGED <<problem9_vars, problem01_vars, problem3_vars,
                   problem5_vars, problem11_vars,
                   problem4_vars,
                   shared_vars, problem7_vars>>

\* heap.pop() returns None: the Answer is returned
heap_exhausted ==
    /\ pc8 = "loop"
    /\ heap = {}
    /\ pc8' = "done"
    /\ UNCHANGED <<junctions, id_to_circuit, heap, connections_to_make,
                   circuits_remaining, connections_made, part1_answer,
                   part2_answer, processed>>
    /\ UNCHANGED <<problem9_vars, problem01_vars, problem3_vars,
                   problem5_vars, problem11_vars,
                   problem4_vars,
                   shared_vars, problem7_vars>>

\* any list of at most MaxJunctions junctions
ReadJunction ==
    /\ Len(junctions) < MaxJunctions
    /\ \E x \in 1..JunctionMaxCoord, y \in 1..JunctionMaxCoord,
          z \in 1..JunctionMaxCoord : read_junction(x, y, z)

\* any number of connections to make
BuildHeap ==
    \E k \in 0..MaxConnections : build_heap(k)

----------------------------------------------------------------------------
(* problem3: BatteryBank *)

\* variant: a battery is only swapped out for a strictly better one
RECURSIVE cascade_strict(_, _, _)
cascade_strict(sel, available_battery, i) ==
    IF i > Len(sel) \/ ~(available_battery > sel[i])
    THEN sel
    ELSE cascade_strict([sel EXCEPT ![i] = available_battery], sel[i], i + 1)

\* the inner loop from selected[i] on: swap while the available battery is
\* at least as good as the selected one, stop at the first that is better
RECURSIVE cascade(_, _, _)
cascade(sel, available_battery, i) ==
    IF i > Len(sel) \/ ~(available_battery >= sel[i])
    THEN sel
    ELSE cascade([sel EXCEPT ![i] = available_battery], sel[i], i + 1)

\* the sum of 10^(max_batteries - idx - 1) * joltage over the selected digits
RECURSIVE calculate(_, _, _)
calculate(sel, batteries, i) ==
    IF i > Len(sel)
    THEN 0
    ELSE 10 ^ (batteries - (i - 1) - 1) * sel[i]
         + calculate(sel, batteries, i + 1)

\* one more character of the bank
read_battery(d) ==
    /\ pc3 = "bank"
    /\ joltages' = Append(joltages, d)
    /\ UNCHANGED <<max_batteries, selected, digit_iter, joltage, pc3>>
    /\ UNCHANGED <<problem9_vars, problem01_vars, problem8_vars,
                   problem5_vars, problem11_vars,
                   problem4_vars,
                   shared_vars, problem7_vars>>

\* maximum_joltage(max_batteries) up to the first turn of the outer loop:
\* the last max_batteries digits are selected, in their order
initialize_joltages(batteries) ==
    /\ pc3 = "bank"
    /\ max_batteries' = batteries
    /\ LET taken == IF batteries < Len(joltages)
                    THEN batteries ELSE Len(joltages)
       IN  /\ selected' = SubSeq(joltages, Len(joltages) - taken + 1,
                                 Len(joltages))
           /\ digit_iter' = Len(joltages) - taken
    /\ pc3' = "select"
    /\ UNCHANGED <<joltages, joltage>>
    /\ UNCHANGED <<problem9_vars, problem01_vars, problem8_vars,
                   problem5_vars, problem11_vars,
                   problem4_vars,
                   shared_vars, problem7_vars>>

\* one turn of the outer loop: the next digit to the left is offered
offer_battery ==
    /\ pc3 = "select"
    /\ digit_iter > 0
    /\ selected' = cascade(selected, joltages[digit_iter], 1)
    /\ digit_iter' = digit_iter - 1
    /\ UNCHANGED <<joltages, max_batteries, joltage, pc3>>
    /\ UNCHANGED <<problem9_vars, problem01_vars, problem8_vars,
                   problem5_vars, problem11_vars,
                   problem4_vars,
                   shared_vars, problem7_vars>>

\* the digits are exhausted: the joltage is calculated and returned
calculate_joltage ==
    /\ pc3 = "select"
    /\ digit_iter = 0
    /\ joltage' = calculate(selected, max_batteries, 1)
    /\ pc3' = "done"
    /\ UNCHANGED <<joltages, max_batteries, selected, digit_iter>>
    /\ UNCHANGED <<problem9_vars, problem01_vars, problem8_vars,
                   problem5_vars, problem11_vars,
                   problem4_vars,
                   shared_vars, problem7_vars>>

\* any bank of at most MaxBankLen digits
ReadBattery ==
    /\ Len(joltages) < MaxBankLen
    /\ \E d \in 0..MaxDigit : read_battery(d)

\* any number of batteries
MaximumJoltage ==
    \E batteries \in 0..MaxBatteries : initialize_joltages(batteries)

----------------------------------------------------------------------------
(* problem5: ComplicatedInventoryManagmentSystem *)

IngredientRange(start, end) == [start |-> start, end |-> end]

contains(range, id) == id >= range.start /\ id <= range.end

\* what sort_unstable may leave: the ranges in an order of non-decreasing
\* start (Ord compares the start only, equal starts come in any order)
sorted_orders(rs) ==
    {[i \in 1..Len(rs) |-> rs[p[i]]] :
        p \in {q \in [1..Len(rs) -> 1..Len(rs)] :
                  /\ \A i, j \in 1..Len(rs) : i # j => q[i] # q[j]
                  /\ \A i \in 1..(Len(rs) - 1) :
                         rs[q[i]].start <= rs[q[i + 1]].start}}

\* variant: a range that starts inside the previous one always moves its end
RECURSIVE merge_overwriting(_, _, _)
merge_overwriting(sorted, i, merged) ==
    IF i > Len(sorted)
    THEN merged
    ELSE LET range == sorted[i]
             previous_idx == Len(merged)
             previous == merged[previous_idx]
         IN  IF range.start <= previous.end
             THEN merge_overwriting(sorted, i + 1,
                      [merged EXCEPT ![previous_idx].end = range.end])
             ELSE merge_overwriting(sorted, i + 1, Append(merged, range))

\* the loop of load from sorted[i] on
RECURSIVE merge(_, _, _)
merge(sorted, i, merged) ==
    IF i > Len(sorted)
    THEN merged
    ELSE LET range == sorted[i]
             previous_idx == Len(merged)
             previous == merged[previous_idx]
         IN  IF range.start <= previous.end
             THEN IF range.end > previous.end
                  THEN merge(sorted, i + 1,
                             [merged EXCEPT ![previous_idx].end = range.end])
                  ELSE merge(sorted, i + 1, merged)
             ELSE merge(sorted, i + 1, Append(merged, range))

\* binary_search_by_key(&id, |r| r.start) on starts in non-decreasing order:
\* Ok when some start is id, otherwise Err(the number of starts below id)
binary_search_by_start(rs, id) ==
    IF \E i \in 1..Len(rs) : rs[i].start = id
    THEN [ok |-> TRUE]
    ELSE [ok |-> FALSE,
          pos |-> Cardinality({i \in 1..Len(rs) : rs[i].start < id})]

is_fresh(rs, id) ==
    LET found == binary_search_by_start(rs, id)
    IN  IF found.ok
        THEN TRUE
        ELSE IF found.pos = 0
        THEN FALSE
        ELSE contains(rs[found.pos], id)

\* one more line "start-end" of the input
read_range(start, end) ==
    /\ pc5 = "lines"
    /\ ranges' = Append(ranges, IngredientRange(start, end))
    /\ UNCHANGED <<fresh_ingredients, fresh_check, pc5>>
    /\ UNCHANGED <<problem9_vars, problem01_vars, problem8_vars,
                   problem3_vars, problem11_vars,
                   problem4_vars,
                   shared_vars, problem7_vars>>

\* ComplicatedInventoryManagmentSystem::load
load ==
    /\ pc5 = "lines"
    /\ IF ranges = << >>
       THEN \* iter.next().unwrap()
            /\ pc5' = "panic"
            /\ UNCHANGED fresh_ingredients
       ELSE /\ \E sorted \in sorted_orders(ranges) :
                  fresh_ingredients' = merge(sorted, 2, <<sorted[1]>>)
            /\ pc5' = "loaded"
    /\ UNCHANGED <<ranges, fresh_check>>
    /\ UNCHANGED <<problem9_vars, problem01_vars, problem8_vars,
                   problem3_vars, problem11_vars,
                   problem4_vars,
                   shared_vars, problem7_vars>>

\* is_ingredient_fresh(id)
is_ingredient_fresh(id) ==
    /\ pc5 = "loaded"
    /\ fresh_check' = [asked |-> TRUE, id |-> id,
                       fresh |-> is_fresh(fresh_ingredients, id)]
    /\ UNCHANGED <<ranges, fresh_ingredients, pc5>>
    /\ UNCHANGED <<problem9_vars, problem01_vars, problem8_vars,
                   problem3_vars, problem11_vars,
                   problem4_vars,
                   shared_vars, problem7_vars>>

\* any list of at most MaxRanges ranges
ReadRange ==
    /\ Len(ranges) < MaxRanges
    /\ \E start \in 0..MaxIngredientId, end \in 0..MaxIngredientId :
          read_range(start, end)

\* any id up to one past the largest bound
CheckIngredient ==
    \E id \in 0..(MaxIngredientId + 1) : is_ingredient_fresh(id)

----------------------------------------------------------------------------
(* problem11: devices and path tallies *)

\* the labels of the input lines; "out" is the implicit device
Labels == {"you", "svr", "dac", "fft", "aaa"}

defined_labels(ds) == {ds[i].label : i \in 1..Len(ds)}

\* Device::outputs of the device with this label; "out" has none
outputs(ds, label) ==
    IF label \in defined_labels(ds)
    THEN ds[CHOOSE i \in 1..Len(ds) : ds[i].label = label].outputs
    ELSE {}

\* PathTally::default()
default_tally == [out |-> 0, dac |-> 0, fft |-> 0, dac_and_fft |-> 0]

\* variant: every path that leaves dac or fft counts as going through both
update_counting_either(tallies, device_label) ==
    CASE device_label = "out" -> [tallies EXCEPT !.out = 1]
      [] device_label = "dac" ->
            [tallies EXCEPT !.dac = tallies.out, !.dac_and_fft = tallies.out]
      [] device_label = "fft" ->
            [tallies EXCEPT !.fft = tallies.out, !.dac_and_fft = tallies.out]
      [] OTHER -> tallies

update_for_specific_devices(tallies, device_label) ==
    CASE device_label = "out" -> [tallies EXCEPT !.out = 1]
      [] device_label = "dac" ->
            [tallies EXCEPT !.dac = tallies.out,
                            !.dac_and_fft = IF tallies.fft > 0
                                            THEN tallies.fft
                                            ELSE tallies.dac_and_fft]
      [] device_label = "fft" ->
            [tallies EXCEPT !.fft = tallies.out,
                            !.dac_and_fft = IF tallies.dac > 0
                                            THEN tallies.dac
                                            ELSE tallies.dac_and_fft]
      [] OTHER -> tallies

\* AddAssign<PathTally>
add_assign(lhs, rhs) ==
    [out |-> lhs.out + rhs.out,
     dac |-> lhs.dac + rhs.dac,
     fft |-> lhs.fft + rhs.fft,
     dac_and_fft |-> lhs.dac_and_fft + rhs.dac_and_fft]

\* find_paths_to_out(device, all_tallies): the tally it returns and the
\* memo it leaves; tally_outputs is its loop over the outputs still to visit
\* (the sum does not depend on their order)
RECURSIVE find_paths_to_out(_, _, _)
RECURSIVE tally_outputs(_, _, _, _)
find_paths_to_out(ds, label, all_tallies) ==
    IF label \in DOMAIN all_tallies
    THEN [tallies |-> all_tallies[label], all_tallies |-> all_tallies]
    ELSE LET summed == tally_outputs(ds, outputs(ds, label), default_tally,
                                     all_tallies)
             tallies == update_for_specific_devices(summed.tallies, label)
         IN  [tallies |-> tallies,
              all_tallies |-> (label :> tallies) @@ summed.all_tallies]

tally_outputs(ds, to_visit, tallies, all_tallies) ==
    IF to_visit = {}
    THEN [tallies |-> tallies, all_tallies |-> all_tallies]
    ELSE LET output == CHOOSE o \in to_visit : TRUE
             found == find_paths_to_out(ds, output, all_tallies)
         IN  tally_outputs(ds, to_visit \ {output},
                           add_assign(tallies, found.tallies),
                           found.all_tallies)

\* HashMap::new()
no_tallies == [l \in {} |-> default_tally]

\* one more input line "label: outputs"; every output is "out" or a label of
\* an earlier line, so the devices form an acyclic graph
read_device(label, outs) ==
    /\ pc11 = "lines"
    /\ devices' = Append(devices, [label |-> label, outputs |-> outs])
    /\ UNCHANGED <<paths_answer, pc11>>
    /\ UNCHANGED <<problem9_vars, problem01_vars, problem8_vars,
                   problem3_vars, problem5_vars,
                   problem4_vars,
                   shared_vars, problem7_vars>>

\* problem11::solve
count_paths ==
    /\ pc11 = "lines"
    /\ paths_answer' =
          [part1 |-> IF "you" \in defined_labels(devices)
                     THEN find_paths_to_out(devices, "you",
                                            no_tallies).tallies.out
                     ELSE 0,
           part2 |-> IF "svr" \in defined_labels(devices)
                     THEN find_paths_to_out(devices, "svr",
                                            no_tallies).tallies.dac_and_fft
                     ELSE 0]
    /\ pc11' = "done"
    /\ UNCHANGED devices
    /\ UNCHANGED <<problem9_vars, problem01_vars, problem8_vars,
                   problem3_vars, problem5_vars,
                   problem4_vars,
                   shared_vars, problem7_vars>>

\* any acyclic graph of at most MaxDevices devices and "out"
ReadDevice ==
    /\ Len(devices) < MaxDevices
    /\ \E label \in Labels \ defined_labels(devices),
          outs \in SUBSET (defined_labels(devices) \cup {"out"}) :
          /\ outs # {}
          /\ read_device(label, outs)

----------------------------------------------------------------------------
(* problem4: HelpfulDiagram *)

TOO_MANY_NEIGHBORS_TO_MOVE == 4

NEIGHBOR_DELTAS ==
    << <<-1, -1>>, <<-1, 0>>, <<-1, 1>>, <<0, -1>>,
       <<0, 1>>, <<1, -1>>, <<1, 0>>, <<1, 1>> >>

in_bounds(d, x, y) == x >= 0 /\ x < d.width /\ y >= 0 /\ y < d.height

has_roll_at(d, x, y) == in_bounds(d, x, y) /\ <<x, y>> \in d.rolls

count_adjacent_rolls(d, x, y) == d.neighbor_counts[<<x, y>>]

\* variant: a roll with exactly TOO_MANY_NEIGHBORS_TO_MOVE neighbours moves
can_move_at_limit(d, x, y) ==
    /\ has_roll_at(d, x, y)
    /\ count_adjacent_rolls(d, x, y) <= TOO_MANY_NEIGHBORS_TO_MOVE

\* the test of both loops of solve and of remove_roll_recursive
can_move(d, x, y) ==
    /\ has_roll_at(d, x, y)
    /\ count_adjacent_rolls(d, x, y) < TOO_MANY_NEIGHBORS_TO_MOVE

\* neighbor_counts after every add_roll of parse: each roll has added 1 to
\* each of its neighbours in bounds
parsed_counts(width, height, cells) ==
    [c \in (0..(width - 1)) \X (0..(height - 1)) |->
        Cardinality({i \in 1..8 :
            <<c[1] - NEIGHBOR_DELTAS[i][1], c[2] - NEIGHBOR_DELTAS[i][2]>>
                \in cells})]

\* the cell the loops of solve visit at step k: rows from the top, each row
\* from the left
scan_x(d, k) == k % d.width
scan_y(d, k) == k \div d.width

\* the first loop of solve
initially_removable(d) ==
    Cardinality({k \in 0..(d.width * d.height - 1) :
                    can_move(d, scan_x(d, k), scan_y(d, k))})

\* HelpfulDiagram::parse of height lines of width characters
parse(width, height, cells) ==
    /\ pc4 = "input"
    /\ diagram' = [width |-> width, height |-> height, rolls |-> cells,
                   neighbor_counts |-> parsed_counts(width, height, cells)]
    /\ input_rolls' = cells
    /\ pc4' = "parsed"
    /\ UNCHANGED <<removed_rolls, can_initially_remove,
                   can_eventually_remove, scan, calls>>
    /\ UNCHANGED <<problem9_vars, problem01_vars, problem8_vars,
                   problem3_vars, problem5_vars, problem11_vars,
                   shared_vars, problem7_vars>>

\* solve after the parse: the first loop
count_initially ==
    /\ pc4 = "parsed"
    /\ can_initially_remove' = initially_removable(diagram)
    /\ scan' = 0
    /\ pc4' = "removing"
    /\ UNCHANGED <<diagram, input_rolls, removed_rolls,
                   can_eventually_remove, calls>>
    /\ UNCHANGED <<problem9_vars, problem01_vars, problem8_vars,
                   problem3_vars, problem5_vars, problem11_vars,
                   shared_vars, problem7_vars>>

\* the entry of remove_roll_recursive(x, y) on the diagram d, below the
\* calls of stack: the roll is cleared and the call starts at count 1
enter_remove(d, stack, x, y) ==
    /\ diagram' = [d EXCEPT !.rolls = @ \ {<<x, y>>}]
    /\ removed_rolls' = Append(removed_rolls, <<x, y>>)
    /\ calls' = Append(stack, [x |-> x, y |-> y, i |-> 1,
                               removed_count |-> 1])

\* one turn of the second loop of solve, up to the call it makes
scan_cell ==
    /\ pc4 = "removing"
    /\ calls = << >>
    /\ scan < diagram.width * diagram.height
    /\ IF can_move(diagram, scan_x(diagram, scan), scan_y(diagram, scan))
       THEN /\ enter_remove(diagram, calls, scan_x(diagram, scan),
                            scan_y(diagram, scan))
            /\ UNCHANGED scan
       ELSE /\ scan' = scan + 1
            /\ UNCHANGED <<diagram, removed_rolls, calls>>
    /\ UNCHANGED <<input_rolls, can_initially_remove, can_eventually_remove,
                   pc4>>
    /\ UNCHANGED <<problem9_vars, problem01_vars, problem8_vars,
                   problem3_vars, problem5_vars, problem11_vars,
                   shared_vars, problem7_vars>>

\* one turn of the loop over NEIGHBOR_DELTAS in the innermost call, up to
\* the recursive call it makes
visit_neighbor ==
    /\ pc4 = "removing"
    /\ calls # << >>
    /\ calls[Len(calls)].i <= 8
    /\ LET top == calls[Len(calls)]
           neighbor_x == top.x + NEIGHBOR_DELTAS[top.i][1]
           neighbor_y == top.y + NEIGHBOR_DELTAS[top.i][2]
           less == [diagram EXCEPT
                      !.neighbor_counts[<<neighbor_x, neighbor_y>>] = @ - 1]
           advanced == [calls EXCEPT ![Len(calls)].i = @ + 1]
       IN  IF ~in_bounds(diagram, neighbor_x, neighbor_y)
           THEN /\ calls' = advanced
                /\ UNCHANGED <<diagram, removed_rolls>>
           ELSE IF can_move(less, neighbor_x, neighbor_y)
           THEN enter_remove(less, advanced, neighbor_x, neighbor_y)
           ELSE /\ diagram' = less
                /\ calls' = advanced
                /\ UNCHANGED removed_rolls
    /\ UNCHANGED <<input_rolls, can_initially_remove, can_eventually_remove,
                   scan, pc4>>
    /\ UNCHANGED <<problem9_vars, problem01_vars, problem8_vars,
                   problem3_vars, problem5_vars, problem11_vars,
                   shared_vars, problem7_vars>>

\* the innermost call returns its removed_count: to the call that made it,
\* or to the loop of solve, which moves on
return_removed ==
    /\ pc4 = "removing"
    /\ calls # << >>
    /\ calls[Len(calls)].i > 8
    /\ LET top == calls[Len(calls)]
           rest == SubSeq(calls, 1, Len(calls) - 1)
       IN  IF rest = << >>
           THEN /\ can_eventually_remove' =
                      can_eventually_remove + top.removed_count
                /\ scan' = scan + 1
                /\ calls' = rest
           ELSE /\ calls' = [rest EXCEPT ![Len(rest)].removed_count =
                                             @ + top.removed_count]
                /\ UNCHANGED <<can_eventually_remove, scan>>
    /\ UNCHANGED <<diagram, input_rolls, removed_rolls, can_initially_remove,
                   pc4>>
    /\ UNCHANGED <<problem9_vars, problem01_vars, problem8_vars,
                   problem3_vars, problem5_vars, problem11_vars,
                   shared_vars, problem7_vars>>

\* the second loop is over: the Answer is returned
return_answer ==
    /\ pc4 = "removing"
    /\ calls = << >>
    /\ scan >= diagram.width * diagram.height
    /\ pc4' = "done"
    /\ UNCHANGED <<diagram, input_rolls, removed_rolls, can_initially_remove,
                   can_eventually_remove, scan, calls>>
    /\ UNCHANGED <<problem9_vars, problem01_vars, problem8_vars,
                   problem3_vars, problem5_vars, problem11_vars,
                   shared_vars, problem7_vars>>

\* any diagram within the bounds
Parse ==
    /\ pc4 = "input"
    /\ \E width \in 1..MaxWidth, height \in 1..MaxHeight :
          \E cells \in SUBSET ((0..(width - 1)) \X (0..(height - 1))) :
              /\ \/ Cardinality(cells) <= MaxRolls
                 \/ width * height - Cardinality(cells) <= MaxGaps
              /\ parse(width, height, cells)

----------------------------------------------------------------------------
(* problem7: TachyonParticleAnalyzer *)

\* the analyzer while a row is analysed; columns are counted from 1
Analyzer(timelines, split_count, panicked) ==
    [possible_timelines |-> timelines, splits |-> split_count,
     panicked |-> panicked]

\* faulty variant: every timeline that comes into the splitter is counted as
\* a split
split_counting_timelines(a, idx) ==
    Analyzer([a.possible_timelines EXCEPT
                 ![idx - 1] = @ + a.possible_timelines[idx],
                 ![idx + 1] = @ + a.possible_timelines[idx],
                 ![idx] = 0],
             a.splits + a.possible_timelines[idx], FALSE)

\* the arm of '^' for a splitter a particle comes into: idx - 1 of the first
\* column and idx + 1 of the last column are no index of the vector
split(a, idx) ==
    IF idx - 1 < 1 \/ idx + 1 > Len(a.possible_timelines)
    THEN Analyzer(a.possible_timelines, a.splits, TRUE)
    ELSE Analyzer([a.possible_timelines EXCEPT
                      ![idx - 1] = @ + a.possible_timelines[idx],
                      ![idx + 1] = @ + a.possible_timelines[idx],
                      ![idx] = 0],
                  a.splits + 1, FALSE)

\* the loop of analyze over row.chars().enumerate(), from column idx on
RECURSIVE analyze_from(_, _, _)
analyze_from(a, row, idx) ==
    IF a.panicked \/ idx > Len(row) THEN a
    ELSE IF row[idx] = "S"
    THEN analyze_from(
             Analyzer([a.possible_timelines EXCEPT ![idx] = 1], a.splits, FALSE),
             row, idx + 1)
    ELSE IF row[idx] = "^" /\ a.possible_timelines[idx] > 0
    THEN analyze_from(split(a, idx), row, idx + 1)
    ELSE analyze_from(a, row, idx + 1)

\* self.possible_timelines.iter().sum()
RECURSIVE sum(_, _)
sum(timelines, idx) ==
    IF idx = 0 THEN 0 ELSE timelines[idx] + sum(timelines, idx - 1)

possibilities == sum(possible_timelines, Len(possible_timelines))

\* TachyonParticleAnalyzer::analyze(row)
analyze(row) ==
    /\ pc7 = "rows"
    /\ LET resized == IF possible_timelines = << >>
                      THEN [c \in 1..Len(row) |-> 0]
                      ELSE possible_timelines
           after == analyze_from(Analyzer(resized, splits, FALSE), row, 1)
       IN  /\ possible_timelines' = after.possible_timelines
           /\ splits' = after.splits
           /\ pc7' = IF after.panicked THEN "panic" ELSE "rows"
    /\ rows' = Append(rows, row)
    /\ UNCHANGED <<problem9_vars, problem01_vars, problem8_vars,
                   problem3_vars, problem5_vars, problem11_vars,
                   problem4_vars, shared_vars>>

cells_with(grid, c) ==
    {rc \in (1..Len(grid)) \X (1..MaxGridWidth) :
        rc[2] <= Len(grid[rc[1]]) /\ grid[rc[1]][rc[2]] = c}

\* the next line of the input: as wide as the lines before it, with
\* splitters in any columns and 'S' in one of the others or nowhere; the grid
\* keeps within the bounds and holds at most one 'S'
AnalyzeRow ==
    /\ pc7 = "rows"
    /\ Len(rows) < MaxGridRows
    /\ LET splitters_left == MaxSplitters - Cardinality(cells_with(rows, "^"))
           starts_left == 1 - Cardinality(cells_with(rows, "S"))
       IN  \E width \in 1..MaxGridWidth :
              /\ rows # << >> => width = Len(rows[1])
              /\ \E splitters \in SUBSET (1..width) :
                    /\ Cardinality(splitters) <= splitters_left
                    /\ \E start \in 0..(width * starts_left) :
                          /\ start \notin splitters
                          /\ analyze([c \in 1..width |->
                                         IF c \in splitters THEN "^"
                                         ELSE IF c = start THEN "S"
                                         ELSE "."])

----------------------------------------------------------------------------
(* shared.rs: NumericPartitionIterator *)

usize_max == 2 ^ UsizeBits - 1

\* NumericPartitionIterator::new(to_split, partition_size). When
\* 10_usize.pow(partition_size) passes usize::MAX, a build with overflow
\* checks panics and a build without them keeps the low bits of the power.
NumericPartitionIterator_new(n, size) ==
    /\ pc_iter = "new"
    /\ to_split' = n
    /\ partition_size' = size
    /\ \/ /\ 10 ^ size <= usize_max
          /\ remaining' = n
          /\ divisor' = 10 ^ size
          /\ pc_iter' = "iterating"
       \/ /\ 10 ^ size > usize_max
          /\ pc_iter' = "panic"
          /\ UNCHANGED <<remaining, divisor>>
       \/ /\ 10 ^ size > usize_max
          /\ remaining' = n
          /\ divisor' = as_usize(10 ^ size)
          /\ pc_iter' = "iterating"
    /\ UNCHANGED yielded
    /\ UNCHANGED <<problem9_vars, problem01_vars, problem8_vars,
                   problem3_vars, problem5_vars, problem11_vars,
                   problem4_vars, problem7_vars>>

\* Iterator::next: None when nothing remains, else the low partition
next ==
    /\ pc_iter = "iterating"
    /\ IF remaining = 0
       THEN /\ pc_iter' = "ended"
            /\ UNCHANGED <<remaining, yielded>>
       ELSE IF divisor = 0
       THEN \* remainder with a divisor of zero
            /\ pc_iter' = "panic"
            /\ UNCHANGED <<remaining, yielded>>
       ELSE /\ yielded' = Append(yielded, remaining % divisor)
            /\ remaining' = remaining \div divisor
            /\ UNCHANGED pc_iter
    /\ UNCHANGED <<to_split, partition_size, divisor>>
    /\ UNCHANGED <<problem9_vars, problem01_vars, problem8_vars,
                   problem3_vars, problem5_vars, problem11_vars,
                   problem4_vars, problem7_vars>>

\* an iterator over any usize, for any partition size within the bound
NewIterator ==
    /\ pc_iter = "new"
    /\ \E n \in 0..usize_max, size \in 0..MaxPartitionSize :
          NumericPartitionIterator_new(n, size)

\* the caller takes one more value
TakeNext ==
    /\ pc_iter = "iterating"
    /\ Len(yielded) < MaxYields
    /\ next

----------------------------------------------------------------------------
(* Point, Rect, Line *)

Point(x, y) == [x |-> x, y |-> y]

Line(start, end) == [start |-> start, end |-> end]

min(a, b) == IF a <= b THEN a ELSE b

max(a, b) == IF a >= b THEN a ELSE b

abs_diff(a, b) == IF a >= b THEN a - b ELSE b - a

\* faulty variant: the spans are not made inclusive
area_exclusive(top_left, bottom_right) ==
    abs_diff(top_left.x, bottom_right.x) * abs_diff(top_left.y, bottom_right.y)

\* variant: the width is counted without its last column
area_half_open(top_left, bottom_right) ==
    abs_diff(top_left.x, bottom_right.x)
    * (abs_diff(top_left.y, bottom_right.y) + 1)

area(top_left, bottom_right) ==
    LET width == abs_diff(top_left.x, bottom_right.x) + 1
        height == abs_diff(top_left.y, bottom_right.y) + 1
    IN  width * height

Rect(top_left, bottom_right) ==
    [top_left |-> top_left, bottom_right |-> bottom_right,
     area |-> area(top_left, bottom_right)]

lines(rect) ==
    LET top_right == Point(rect.bottom_right.x, rect.top_left.y)
        bottom_left == Point(rect.top_left.x, rect.bottom_right.y)
    IN  << Line(rect.top_left, top_right),
           Line(top_right, rect.bottom_right),
           Line(rect.bottom_right, bottom_left),
           Line(bottom_left, rect.top_left) >>

line_points(line) ==
    IF line.start.x = line.end.x
    THEN LET min_y == min(line.start.y, line.end.y)
             max_y == max(line.start.y, line.end.y)
         IN  {Point(line.start.x, y) : y \in min_y..max_y}
    ELSE LET min_x == min(line.start.x, line.end.x)
             max_x == max(line.start.x, line.end.x)
         IN  {Point(x, line.start.y) : x \in min_x..max_x}

perimeter_points(rect) ==
    UNION {line_points(lines(rect)[i]) : i \in 1..4}

----------------------------------------------------------------------------
(* Direction and Polygon::new *)

Direction(line) ==
    IF line.start.x = line.end.x
    THEN IF line.end.y > line.start.y THEN "Down" ELSE "Up"
    ELSE IF line.end.x > line.start.x THEN "Right" ELSE "Left"

\* the lines of consecutive points, then the line from the last to the first
make_borders(pts) ==
    [i \in 1..Len(pts) |->
        Line(pts[i], pts[IF i = Len(pts) THEN 1 ELSE i + 1])]

\* faulty variant: the row for Left -> Down answers None
classify_turn_left_down_convex(first_dir, second_dir) ==
    CASE first_dir = "Right" /\ second_dir = "Down"  -> "None"
      [] first_dir = "Right" /\ second_dir = "Up"    -> "Some"
      [] first_dir = "Down"  /\ second_dir = "Left"  -> "None"
      [] first_dir = "Down"  /\ second_dir = "Right" -> "Some"
      [] first_dir = "Left"  /\ second_dir = "Down"  -> "None"
      [] first_dir = "Left"  /\ second_dir = "Up"    -> "None"
      [] first_dir = "Up"    /\ second_dir = "Left"  -> "Some"
      [] first_dir = "Up"    /\ second_dir = "Right" -> "None"
      [] OTHER -> "panic"

\* faulty variant: the catch-all arm answers None instead of panicking
classify_turn_defaulting(first_dir, second_dir) ==
    CASE first_dir = "Right" /\ second_dir = "Up"    -> "Some"
      [] first_dir = "Down"  /\ second_dir = "Right" -> "Some"
      [] first_dir = "Left"  /\ second_dir = "Down"  -> "Some"
      [] first_dir = "Up"    /\ second_dir = "Left"  -> "Some"
      [] OTHER -> "None"

\* the match of the filter_map closure: Some(vertex), None, or the panic
classify_turn(first_dir, second_dir) ==
    CASE first_dir = "Right" /\ second_dir = "Down"  -> "None"
      [] first_dir = "Right" /\ second_dir = "Up"    -> "Some"
      [] first_dir = "Down"  /\ second_dir = "Left"  -> "None"
      [] first_dir = "Down"  /\ second_dir = "Right" -> "Some"
      [] first_dir = "Left"  /\ second_dir = "Down"  -> "Some"
      [] first_dir = "Left"  /\ second_dir = "Up"    -> "None"
      [] first_dir = "Up"    /\ second_dir = "Left"  -> "Some"
      [] first_dir = "Up"    /\ second_dir = "Right" -> "None"
      [] OTHER -> "panic"

\* the i-th (first, second) pair of borders: tuple_windows, then (last, first)
second_of(bs, i) == bs[IF i = Len(bs) THEN 1 ELSE i + 1]

turn_at(bs, i) == classify_turn(Direction(bs[i]), Direction(second_of(bs, i)))

impossible_turn(bs) == \E i \in 1..Len(bs) : turn_at(bs, i) = "panic"

\* faulty variant: the vertex taken is first.start instead of first.end
make_concave_vertices_start(bs) ==
    {bs[i].start : i \in {j \in 1..Len(bs) : turn_at(bs, j) = "Some"}}

make_concave_vertices(bs) ==
    {bs[i].end : i \in {j \in 1..Len(bs) : turn_at(bs, j) = "Some"}}

----------------------------------------------------------------------------
(* point_in_bounds and rect_in_bounds *)

\* indices of the vertical borders at or left of the point whose y range
\* holds the point's y
intersecting_borders(point, bs) ==
    {i \in 1..Len(bs) :
        /\ bs[i].start.x = bs[i].end.x
        /\ point.x >= bs[i].start.x
        /\ point.y >= min(bs[i].start.y, bs[i].end.y)
        /\ point.y <= max(bs[i].start.y, bs[i].end.y)}

point_on_border(point, bs) ==
    \E i \in intersecting_borders(point, bs) :
        /\ point.x = bs[i].start.x
        /\ point.y >= min(bs[i].start.y, bs[i].end.y)
        /\ point.y <= max(bs[i].start.y, bs[i].end.y)

\* faulty variant: no border is dropped at a concave vertex
keeps_border_always(point, b, concave) == TRUE

\* the second filter: a border met at an end point that is a concave vertex
\* is dropped
keeps_border(point, b, concave) ==
    IF point.y = b.start.y THEN b.start \notin concave
    ELSE IF point.y = b.end.y THEN b.end \notin concave
    ELSE TRUE

\* faulty variant: no early return for a point on a vertical border
point_in_bounds_parity_only(point, bs, concave) ==
    Cardinality({i \in intersecting_borders(point, bs) :
                    keeps_border(point, bs[i], concave)}) % 2 = 1

point_in_bounds(point, bs, concave) ==
    IF point_on_border(point, bs) THEN TRUE
    ELSE LET count == Cardinality({i \in intersecting_borders(point, bs) :
                                      keeps_border(point, bs[i], concave)})
         IN  count % 2 = 1

\* faulty variant: the perimeter is not walked, only the implied corners
\* are tested
rect_in_bounds_corners_only(rect, bs, concave) ==
    /\ point_in_bounds(Point(rect.bottom_right.x, rect.top_left.y), bs, concave)
    /\ point_in_bounds(Point(rect.top_left.x, rect.bottom_right.y), bs, concave)

\* faulty variant: corner-only testing, the four corners stand for the
\* whole perimeter
rect_in_bounds_four_corners(rect, bs, concave) ==
    \A c \in {rect.top_left, rect.bottom_right,
              Point(rect.bottom_right.x, rect.top_left.y),
              Point(rect.top_left.x, rect.bottom_right.y)} :
        point_in_bounds(c, bs, concave)

\* variant: only the corner, the top side and the right side are walked
rect_in_bounds_upper_half(rect, bs, concave) ==
    LET top_right == Point(rect.bottom_right.x, rect.top_left.y)
    IN  /\ point_in_bounds(top_right, bs, concave)
        /\ \A p \in line_points(lines(rect)[1]) \cup line_points(lines(rect)[2]) :
               point_in_bounds(p, bs, concave)

rect_in_bounds(rect, bs, concave) ==
    LET top_right == Point(rect.bottom_right.x, rect.top_left.y)
        bottom_left == Point(rect.top_left.x, rect.bottom_right.y)
    IN  IF \/ ~point_in_bounds(top_right, bs, concave)
           \/ ~point_in_bounds(bottom_left, bs, concave)
        THEN FALSE
        ELSE \A p \in perimeter_points(rect) : point_in_bounds(p, bs, concave)

----------------------------------------------------------------------------
(* solve *)

\* combinations(2): index pairs (i, j), i < j, in lexicographic order
RECURSIVE pairs_from(_, _, _)
pairs_from(n, i, j) ==
    IF i >= n THEN << >>
    ELSE IF j > n THEN pairs_from(n, i + 1, i + 2)
    ELSE << <<i, j>> >> \o pairs_from(n, i, j + 1)

build_rects(pts) ==
    LET ps == pairs_from(Len(pts), 1, 2)
    IN  [k \in 1..Len(ps) |-> Rect(pts[ps[k][1]], pts[ps[k][2]])]

\* faulty variant: a.area.cmp(&b.area), smallest area first
sorted_position_ascending(rects, k) ==
    1 + Cardinality({m \in 1..Len(rects) :
                        \/ rects[m].area < rects[k].area
                        \/ rects[m].area = rects[k].area /\ m < k})

\* sort_by(|a, b| b.area.cmp(&a.area)) is a stable sort, largest area first:
\* rects[k] moves behind every larger rect and every earlier rect of its area
sorted_position(rects, k) ==
    1 + Cardinality({m \in 1..Len(rects) :
                        \/ rects[m].area > rects[k].area
                        \/ rects[m].area = rects[k].area /\ m < k})

sort_by_area_desc(rects) ==
    [p \in 1..Len(rects) |->
        rects[CHOOSE k \in 1..Len(rects) : sorted_position(rects, k) = p]]

\* .filter(rect_in_bounds).map(area).next(): index of the first hit, 0 if none
first_in_bounds(rects, bs, concave) ==
    LET hits == {k \in 1..Len(rects) : rect_in_bounds(rects[k], bs, concave)}
    IN  IF hits = {} THEN 0
        ELSE CHOOSE k \in hits : \A m \in hits : k <= m

NoQuery == [kind |-> "none"]

NoAnswer == [part1 |-> 0, part2 |-> 0]

----------------------------------------------------------------------------
(* The vertex lists and query points the model explores *)

Coords == 0..MaxCoord

SimpleCoords == 0..SimpleMaxCoord

WideCoords == 0..WideMaxCoord

\* the input of tests::solve_basic_input, check_point_in_bounds and
\* check_rect_in_bounds
Octagon ==
    << Point(7, 1), Point(11, 1), Point(11, 7), Point(9, 7),
       Point(9, 5), Point(2, 5), Point(2, 3), Point(7, 3) >>

max_of(S) ==
    IF S = {} THEN 0
    ELSE LET m == CHOOSE a \in S : \A b \in S : a >= b IN m

\* query points: the lattice from the origin to one row and column beyond
\* the vertices
query_points(pts) ==
    LET max_x == max_of({pts[i].x : i \in 1..Len(pts)})
        max_y == max_of({pts[i].y : i \in 1..Len(pts)})
    IN  {Point(x, y) : x \in 0..(max_x + 1), y \in 0..(max_y + 1)}

is_vertical(a, b) == a.x = b.x /\ a.y # b.y

is_horizontal(a, b) == a.y = b.y /\ a.x # b.x

\* the closed axis-aligned segments a-b and c-d share a point
segments_touch(a, b, c, d) ==
    /\ min(a.x, b.x) <= max(c.x, d.x)
    /\ min(c.x, d.x) <= max(a.x, b.x)
    /\ min(a.y, b.y) <= max(c.y, d.y)
    /\ min(c.y, d.y) <= max(a.y, b.y)

\* p continues the path pts by an edge that is perpendicular to the last one
\* and touches no earlier edge
extends_simply(pts, p) ==
    LET n == Len(pts)
    IN  \/ n = 0
        \/ /\ n = 1
           /\ is_vertical(pts[1], p) \/ is_horizontal(pts[1], p)
        \/ /\ n >= 2
           /\ IF is_vertical(pts[n - 1], pts[n])
              THEN is_horizontal(pts[n], p)
              ELSE is_vertical(pts[n], p)
           /\ \A i \in 1..(n - 2) :
                 ~segments_touch(pts[n], p, pts[i], pts[i + 1])

simple_path(pts) ==
    \A k \in 1..Len(pts) : extends_simply(SubSeq(pts, 1, k - 1), pts[k])

\* the path pts is closed into a polygon by the edge from its last point to
\* its first: that edge is perpendicular to both its neighbours and touches
\* no other edge
closes_simply(pts) ==
    LET n == Len(pts)
    IN  /\ n >= 4
        /\ IF is_vertical(pts[n - 1], pts[n])
           THEN is_horizontal(pts[n], pts[1]) /\ is_vertical(pts[1], pts[2])
           ELSE is_vertical(pts[n], pts[1]) /\ is_horizontal(pts[1], pts[2])
        /\ \A i \in 2..(n - 2) :
              ~segments_touch(pts[n], pts[1], pts[i], pts[i + 1])

----------------------------------------------------------------------------
(* Reference geometry of the closed polygon a vertex list describes, stated  *)
(* from the coordinates alone                                               *)

next_vertex(pts, i) == pts[IF i = Len(pts) THEN 1 ELSE i + 1]

prev_vertex(pts, i) == pts[IF i = 1 THEN Len(pts) ELSE i - 1]

\* every edge is axis-aligned with distinct ends, consecutive edges are
\* perpendicular, and two edges share a point only where consecutive edges
\* meet
IsSimplePolygon(pts) ==
    LET n == Len(pts)
    IN  /\ n >= 4
        /\ \A i \in 1..n :
              \/ is_vertical(pts[i], next_vertex(pts, i))
                 /\ is_horizontal(prev_vertex(pts, i), pts[i])
              \/ is_horizontal(pts[i], next_vertex(pts, i))
                 /\ is_vertical(prev_vertex(pts, i), pts[i])
        /\ \A i \in 1..n, j \in 1..n :
              (i < j /\ j # i + 1 /\ ~(i = 1 /\ j = n)) =>
                 ~segments_touch(pts[i], next_vertex(pts, i),
                                 pts[j], next_vertex(pts, j))

\* twice the signed area; positive when the vertices run clockwise as drawn
\* with y growing downward
RECURSIVE shoelace(_, _)
shoelace(pts, i) ==
    IF i = 0 THEN 0
    ELSE shoelace(pts, i - 1)
         + pts[i].x * next_vertex(pts, i).y - next_vertex(pts, i).x * pts[i].y

Clockwise(pts) == shoelace(pts, Len(pts)) > 0

\* the turn at vertex i: positive when it turns the way a clockwise polygon
\* turns at a convex corner
cross(pts, i) ==
    LET a == prev_vertex(pts, i)
        b == pts[i]
        c == next_vertex(pts, i)
    IN  (b.x - a.x) * (c.y - b.y) - (b.y - a.y) * (c.x - b.x)

\* the vertices whose interior angle exceeds 180 degrees
ReflexVertices(pts) ==
    {pts[i] : i \in {j \in 1..Len(pts) :
                        IF Clockwise(pts) THEN cross(pts, j) < 0
                        ELSE cross(pts, j) > 0}}

OnBoundary(p, pts) ==
    \E i \in 1..Len(pts) :
        /\ p.x >= min(pts[i].x, next_vertex(pts, i).x)
        /\ p.x <= max(pts[i].x, next_vertex(pts, i).x)
        /\ p.y >= min(pts[i].y, next_vertex(pts, i).y)
        /\ p.y <= max(pts[i].y, next_vertex(pts, i).y)

\* for a lattice point off the boundary: the ray from (p.x + 1/2, p.y + 1/2)
\* to the left meets no vertex, and crosses an odd number of edges exactly
\* when p is inside
StrictlyInside(p, pts) ==
    /\ ~OnBoundary(p, pts)
    /\ Cardinality({i \in 1..Len(pts) :
          /\ pts[i].x = next_vertex(pts, i).x
          /\ pts[i].x <= p.x
          /\ min(pts[i].y, next_vertex(pts, i).y) <= p.y
          /\ p.y < max(pts[i].y, next_vertex(pts, i).y)}) % 2 = 1

InsideOrOn(p, pts) == OnBoundary(p, pts) \/ StrictlyInside(p, pts)

\* the lattice points of the filled rectangle with corners a and b
FilledRect(a, b) ==
    {Point(x, y) : x \in min(a.x, b.x)..max(a.x, b.x),
                   y \in min(a.y, b.y)..max(a.y, b.y)}

\* those on its four edges
RectPerimeter(a, b) ==
    {p \in FilledRect(a, b) : p.x \in {a.x, b.x} \/ p.y \in {a.y, b.y}}

IsVertex(p, pts) == \E i \in 1..Len(pts) : pts[i] = p

IndexPairs(pts) == {pr \in (1..Len(pts)) \X (1..Len(pts)) : pr[1] < pr[2]}

PairArea(pts, pr) ==
    (abs_diff(pts[pr[1]].x, pts[pr[2]].x) + 1)
    * (abs_diff(pts[pr[1]].y, pts[pr[2]].y) + 1)

----------------------------------------------------------------------------
(* Actions *)

Init ==
    /\ points = << >>
    /\ pc = "parse"
    /\ borders = << >>
    /\ concave_vertices = {}
    /\ panic = "none"
    /\ query = NoQuery
    /\ answer = NoAnswer
    /\ asked = 0
    /\ position = 50
    /\ turns = 0
    /\ last_turn = NoTurn
    /\ junctions = << >>
    /\ id_to_circuit = << >>
    /\ heap = {}
    /\ connections_to_make = 0
    /\ circuits_remaining = 0
    /\ connections_made = 0
    /\ part1_answer = 0
    /\ part2_answer = 0
    /\ processed = << >>
    /\ pc8 = "read"
    /\ joltages = << >>
    /\ max_batteries = 0
    /\ selected = << >>
    /\ digit_iter = 0
    /\ joltage = 0
    /\ pc3 = "bank"
    /\ ranges = << >>
    /\ fresh_ingredients = << >>
    /\ fresh_check = [asked |-> FALSE]
    /\ pc5 = "lines"
    /\ devices = << >>
    /\ paths_answer = NoAnswer
    /\ pc11 = "lines"
    /\ diagram = [width |-> 0, height |-> 0, rolls |-> {},
                  neighbor_counts |-> << >>]
    /\ input_rolls = {}
    /\ removed_rolls = << >>
    /\ can_initially_remove = 0
    /\ can_eventually_remove = 0
    /\ scan = 0
    /\ calls = << >>
    /\ pc4 = "input"
    /\ to_split = 0
    /\ partition_size = 0
    /\ remaining = 0
    /\ divisor = 0
    /\ yielded = << >>
    /\ pc_iter = "new"
    /\ rows = << >>
    /\ possible_timelines = << >>
    /\ splits = 0
    /\ pc7 = "rows"

\* build_points: one more "x,y" line becomes a Point
build_points(x, y) ==
    /\ pc = "parse"
    /\ points' = Append(points, Point(x, y))
    /\ UNCHANGED <<pc, borders, concave_vertices, panic, query, answer, asked>>
    /\ UNCHANGED other_problems

\* Polygon::new(&points)
Polygon_new ==
    /\ pc = "parse"
    /\ IF points = << >>
       THEN \* points.last().unwrap()
            /\ pc' = "panic"
            /\ panic' = "unwrap"
            /\ UNCHANGED <<borders, concave_vertices>>
       ELSE IF impossible_turn(make_borders(points))
       THEN /\ pc' = "panic"
            /\ panic' = "Impossible turn"
            /\ UNCHANGED <<borders, concave_vertices>>
       ELSE /\ pc' = "built"
            /\ borders' = make_borders(points)
            /\ concave_vertices' = make_concave_vertices(make_borders(points))
            /\ UNCHANGED panic
    /\ UNCHANGED <<points, query, answer, asked>>
    /\ UNCHANGED other_problems

\* variant: the query remembers the point it was asked about
point_query_marking(point) ==
    /\ pc = "built"
    /\ query' = [kind |-> "point", point |-> point,
                 result |-> point_in_bounds(point, borders, concave_vertices)]
    /\ concave_vertices' = concave_vertices \cup {point}
    /\ asked' = asked + 1
    /\ UNCHANGED <<points, pc, borders, panic, answer>>
    /\ UNCHANGED other_problems

\* point_in_bounds(&point, &polygon)
point_query(point) ==
    /\ pc = "built"
    /\ query' = [kind |-> "point", point |-> point,
                 result |-> point_in_bounds(point, borders, concave_vertices)]
    /\ asked' = asked + 1
    /\ UNCHANGED <<points, pc, borders, concave_vertices, panic, answer>>
    /\ UNCHANGED other_problems

\* rect_in_bounds(&Rect::new(a, b), &polygon)
rect_query(a, b) ==
    /\ pc = "built"
    /\ query' = [kind |-> "rect", rect |-> Rect(a, b),
                 result |-> rect_in_bounds(Rect(a, b), borders, concave_vertices)]
    /\ asked' = asked + 1
    /\ UNCHANGED <<points, pc, borders, concave_vertices, panic, answer>>
    /\ UNCHANGED other_problems

\* solve, from the sort of all_rects to the Answer
solve ==
    /\ pc = "built"
    /\ LET built == build_rects(points)
           all_rects == sort_by_area_desc(built)
           hit == first_in_bounds(all_rects, borders, concave_vertices)
       IN  IF all_rects = << >> \/ hit = 0
           THEN /\ pc' = "panic"
                /\ panic' = "unwrap"
                /\ UNCHANGED answer
           ELSE /\ pc' = "done"
                /\ answer' = [part1 |-> all_rects[1].area,
                              part2 |-> all_rects[hit].area]
                /\ UNCHANGED panic
    /\ UNCHANGED <<points, borders, concave_vertices, query, asked>>
    /\ UNCHANGED other_problems

\* any list of at most MaxPoints lines
AnyLine ==
    /\ pc = "parse"
    /\ Len(points) < MaxPoints
    /\ \E x \in Coords, y \in Coords : build_points(x, y)

\* the next vertex of a rectilinear path that does not touch itself
SimpleLine ==
    /\ pc = "parse"
    /\ Len(points) < SimpleMaxVertices
    /\ simple_path(points)
    /\ \E x \in SimpleCoords, y \in SimpleCoords :
          /\ extends_simply(points, Point(x, y))
          /\ build_points(x, y)

\* the next vertex of such a path that starts at the origin
WideLine ==
    /\ pc = "parse"
    /\ Len(points) < WideMaxVertices
    /\ \E x \in WideCoords, y \in WideCoords :
          /\ points = << >> => x = 0 /\ y = 0
          /\ extends_simply(points, Point(x, y))
          /\ build_points(x, y)

\* the next line of the tests' octagon
TestLine ==
    /\ pc = "parse"
    /\ Len(points) < Len(Octagon)
    /\ points = SubSeq(Octagon, 1, Len(points))
    /\ build_points(Octagon[Len(points) + 1].x, Octagon[Len(points) + 1].y)

\* the input ends: a short list of any points, a simple rectilinear polygon,
\* or the tests' octagon
NewPolygon ==
    /\ pc = "parse"
    /\ \/ Len(points) <= MaxPoints
       \/ simple_path(points) /\ closes_simply(points)
       \/ points = Octagon
    /\ Polygon_new

\* Polygon::new of a simple rectilinear polygon
SimplePolygon ==
    pc = "parse" /\ closes_simply(points) /\ Polygon_new

\* one containment question per polygon: a point of the query grid, or the
\* rectangle of two vertices
AskPoint ==
    /\ pc = "built"
    /\ query = NoQuery
    /\ \E p \in query_points(points) : point_query(p)

AskRect ==
    /\ pc = "built"
    /\ query = NoQuery
    /\ \E i \in 1..Len(points), j \in 1..Len(points) :
          rect_query(points[i], points[j])

\* solve is an entry point of its own: no query comes before it
Solve ==
    query = NoQuery /\ solve

Next ==
    \/ AnyLine
    \/ SimpleLine
    \/ TestLine
    \/ NewPolygon
    \/ AskPoint
    \/ AskRect
    \/ Solve

Spec == Init /\ [][Next]_vars

WideNext ==
    \/ WideLine
    \/ SimplePolygon
    \/ AskRect

SpecWide == Init /\ [][WideNext]_vars

\* the next vertex of a simple rectilinear path on the small lattice
QueryLine ==
    /\ pc = "parse"
    /\ Len(points) < QueryMaxVertices
    /\ simple_path(points)
    /\ \E x \in 0..QueryMaxCoord, y \in 0..QueryMaxCoord :
          /\ extends_simply(points, Point(x, y))
          /\ build_points(x, y)

\* Polygon::new of a simple rectilinear polygon of the small lattice
QueryPolygon ==
    /\ pc = "parse"
    /\ simple_path(points)
    /\ closes_simply(points)
    /\ Polygon_new

\* a polygon answers several queries: about any point of the query grid, and
\* about the rectangle of any two points of the small lattice
AskAnyPoint ==
    /\ pc = "built"
    /\ asked < MaxQueries
    /\ \E p \in query_points(points) : point_query(p)

AskAnyRect ==
    /\ pc = "built"
    /\ asked < MaxQueries
    /\ \E ax \in 0..QueryMaxCoord, ay \in 0..QueryMaxCoord,
          bx \in 0..QueryMaxCoord, by \in 0..QueryMaxCoord :
          rect_query(Point(ax, ay), Point(bx, by))

QueriesNext ==
    \/ QueryLine
    \/ QueryPolygon
    \/ AskAnyPoint
    \/ AskAnyRect

SpecQueries == Init /\ [][QueriesNext]_vars

----------------------------------------------------------------------------
(* Specifications of the other problems *)

SafeNext == Turn

SpecSafe == Init /\ [][SafeNext]_vars

CircuitsNext ==
    \/ ReadJunction
    \/ BuildHeap
    \/ connect
    \/ heap_exhausted

SpecCircuits == Init /\ [][CircuitsNext]_vars

BankNext ==
    \/ ReadBattery
    \/ MaximumJoltage
    \/ offer_battery
    \/ calculate_joltage

SpecBank == Init /\ [][BankNext]_vars

InventoryNext ==
    \/ ReadRange
    \/ load
    \/ CheckIngredient

SpecInventory == Init /\ [][InventoryNext]_vars

DevicesNext ==
    \/ ReadDevice
    \/ count_paths

SpecDevices == Init /\ [][DevicesNext]_vars

RollsNext ==
    \/ Parse
    \/ count_initially
    \/ scan_cell
    \/ visit_neighbor
    \/ return_removed
    \/ return_answer

SpecRolls == Init /\ [][RollsNext]_vars

ManifoldNext == AnalyzeRow

SpecManifold == Init /\ [][ManifoldNext]_vars

PartitionNext ==
    \/ NewIterator
    \/ TakeNext

SpecPartition == Init /\ [][PartitionNext]_vars

----------------------------------------------------------------------------
(* Properties of problem9 *)

InBounds(a, b) == rect_in_bounds(Rect(a, b), borders, concave_vertices)

\* C1: when solve returns, part2 is the largest area among the pairs of
\* distinct input vertices whose rectangle passes rect_in_bounds: some passing
\* pair has that area and no passing pair has a larger one. For the octagon
\* of the tests it is 24.
C1_Part2IsLargestInBounds ==
    pc = "done" =>
        LET passing == {pr \in IndexPairs(points) :
                           InBounds(points[pr[1]], points[pr[2]])}
        IN  /\ \E pr \in passing : PairArea(points, pr) = answer.part2
            /\ \A pr \in passing : PairArea(points, pr) <= answer.part2
            /\ points = Octagon => answer.part2 = 24

\* solve has returned after skipping a larger candidate that is out of
\* bounds, and a smaller candidate is in bounds too
C1_Witness ==
    /\ pc = "done"
    /\ \E pr \in IndexPairs(points) :
          /\ PairArea(points, pr) > answer.part2
          /\ ~InBounds(points[pr[1]], points[pr[2]])
    /\ \E pr \in IndexPairs(points) :
          /\ PairArea(points, pr) < answer.part2
          /\ InBounds(points[pr[1]], points[pr[2]])

\* C2: a rectangle between two vertices of a simple rectilinear polygon that
\* rect_in_bounds accepts lies entirely within the polygon: every lattice
\* point of the filled rectangle is on the boundary or strictly inside.
C2_AcceptedRectLiesInside ==
    ( /\ query.kind = "rect"
      /\ query.result
      /\ IsSimplePolygon(points)
      /\ IsVertex(query.rect.top_left, points)
      /\ IsVertex(query.rect.bottom_right, points) )
    => \A p \in FilledRect(query.rect.top_left, query.rect.bottom_right) :
          InsideOrOn(p, points)

\* C3: for a simple rectilinear polygon listed clockwise (y growing downward)
\* point_in_bounds answers true exactly for the lattice points on the
\* boundary or strictly inside.
C3_PointInBoundsExact ==
    ( /\ query.kind = "point"
      /\ IsSimplePolygon(points)
      /\ Clockwise(points) )
    => query.result = InsideOrOn(query.point, points)

\* an inside point whose scanline runs, to its left, along a horizontal edge
\* that ends in a concave vertex
C3_Witness ==
    /\ query.kind = "point"
    /\ IsSimplePolygon(points)
    /\ Clockwise(points)
    /\ query.result
    /\ StrictlyInside(query.point, points)
    /\ \E i \in 1..Len(borders) :
          /\ borders[i].start.y = query.point.y
          /\ borders[i].end.y = query.point.y
          /\ borders[i].start.x < query.point.x
          /\ borders[i].end.x < query.point.x
          /\ borders[i].start \in concave_vertices

\* C4: for a simple rectilinear polygon in either winding order,
\* point_in_bounds is true of every lattice point on an edge, horizontal or
\* vertical, the vertices included.
C4_BoundaryInclusionAnyOrder ==
    ( /\ query.kind = "point"
      /\ IsSimplePolygon(points)
      /\ OnBoundary(query.point, points) )
    => query.result

\* The clockwise half of C4: for a simple rectilinear polygon listed
\* clockwise (y growing downward), point_in_bounds is true of every lattice
\* point on an edge.
C4_BoundaryInclusionClockwise ==
    ( /\ query.kind = "point"
      /\ IsSimplePolygon(points)
      /\ Clockwise(points)
      /\ OnBoundary(query.point, points) )
    => query.result

\* a point within a horizontal edge of a clockwise polygon, on no vertical
\* edge, answered true
C4_ClockwiseWitness ==
    /\ query.kind = "point"
    /\ IsSimplePolygon(points)
    /\ Clockwise(points)
    /\ OnBoundary(query.point, points)
    /\ ~IsVertex(query.point, points)
    /\ \E i \in 1..Len(points) :
          /\ is_horizontal(points[i], next_vertex(points, i))
          /\ points[i].y = query.point.y
    /\ ~point_on_border(query.point, borders)
    /\ query.result

\* C5: rect_in_bounds is true exactly when point_in_bounds holds of every
\* lattice point on the four edges of the rectangle; the two implied corners
\* it tests first are among the perimeter points it walks.
C5_RectIffPerimeter ==
    query.kind = "rect" =>
        LET tl == query.rect.top_left
            br == query.rect.bottom_right
        IN  /\ query.result =
                  (\A p \in RectPerimeter(tl, br) :
                      point_in_bounds(p, borders, concave_vertices))
            /\ perimeter_points(query.rect) = RectPerimeter(tl, br)
            /\ Point(br.x, tl.y) \in perimeter_points(query.rect)
            /\ Point(tl.x, br.y) \in perimeter_points(query.rect)

\* all four corners are in bounds and the rectangle is not
C5_Witness ==
    /\ query.kind = "rect"
    /\ ~query.result
    /\ LET tl == query.rect.top_left
           br == query.rect.bottom_right
       IN  \A c \in {tl, br, Point(br.x, tl.y), Point(tl.x, br.y)} :
              point_in_bounds(c, borders, concave_vertices)

\* C6: for a simple rectilinear polygon in either winding order the
\* concave-vertex set built by Polygon::new is the set of reflex vertices.
C6_ConcaveIsReflexAnyOrder ==
    (pc = "built" /\ IsSimplePolygon(points))
    => concave_vertices = ReflexVertices(points)

\* The clockwise half of C6: for a simple rectilinear polygon listed
\* clockwise (y growing downward) the concave-vertex set is the set of
\* reflex vertices.
C6_ConcaveIsReflexClockwise ==
    (pc = "built" /\ IsSimplePolygon(points) /\ Clockwise(points))
    => concave_vertices = ReflexVertices(points)

\* a clockwise polygon with reflex and convex vertices has been built
C6_ClockwiseWitness ==
    /\ pc = "built"
    /\ query = NoQuery
    /\ IsSimplePolygon(points)
    /\ Clockwise(points)
    /\ Cardinality(concave_vertices) >= 2
    /\ Cardinality(concave_vertices) < Len(points)

is_diagonal(a, b) == a.x # b.x /\ a.y # b.y

\* C7: a vertex list with an edge that is not axis-aligned produces no
\* Polygon and gets no containment query answered.
C7_DiagonalEdgeFailsFast ==
    (\E i \in 1..Len(points) : is_diagonal(points[i], next_vertex(points, i)))
    => (pc \in {"parse", "panic"} /\ query = NoQuery)

same_or_opposite(d1, d2) ==
    \/ d1 = d2
    \/ {d1, d2} = {"Up", "Down"}
    \/ {d1, d2} = {"Left", "Right"}

bad_turns(pts) ==
    {i \in 1..Len(pts) :
        same_or_opposite(
            Direction(Line(pts[i], next_vertex(pts, i))),
            Direction(Line(next_vertex(pts, i),
                           next_vertex(pts, IF i = Len(pts) THEN 1 ELSE i + 1))))}

\* C8: Polygon::new ends in the 'Impossible turn' panic exactly when two
\* consecutive edges, the closing pair included, have the same or directly
\* opposite directions; a Polygon is built only when every pair is
\* perpendicular.
C8_ImpossibleTurnPanics ==
    pc # "parse" =>
        /\ (panic = "Impossible turn") = (bad_turns(points) # {})
        /\ pc \in {"built", "done"} => bad_turns(points) = {}
        /\ panic = "Impossible turn" => pc = "panic" /\ borders = << >>

\* the only offending pair is the closing one: last edge -> first edge
C8_Witness ==
    /\ pc = "panic"
    /\ panic = "Impossible turn"
    /\ Len(points) >= 3
    /\ bad_turns(points) = {Len(points)}

ConcaveTurns ==
    {<<"Right", "Up">>, <<"Down", "Right">>, <<"Left", "Down">>, <<"Up", "Left">>}

ConvexTurns ==
    {<<"Right", "Down">>, <<"Down", "Left">>, <<"Left", "Up">>, <<"Up", "Right">>}

\* the direction of an axis-aligned edge, Down being the direction of
\* growing y
edge_direction(a, b) ==
    IF a.x = b.x /\ b.y > a.y THEN "Down"
    ELSE IF a.x = b.x /\ b.y < a.y THEN "Up"
    ELSE IF a.y = b.y /\ b.x > a.x THEN "Right"
    ELSE IF a.y = b.y /\ b.x < a.x THEN "Left"
    ELSE "none"

turn_of(pts, i) ==
    << Direction(Line(prev_vertex(pts, i), pts[i])),
       Direction(Line(pts[i], next_vertex(pts, i))) >>

\* C9: the concave set holds exactly the vertices whose (incoming, outgoing)
\* directions are Right->Up, Down->Right, Left->Down or Up->Left; a vertex
\* with Right->Down, Down->Left, Left->Up or Up->Right is left out (unless
\* the same point is also a vertex with a concave turn); Down is the
\* direction of growing y.
C9_TurnTable ==
    pc = "built" =>
        /\ concave_vertices =
              {points[i] : i \in {j \in 1..Len(points) :
                                     turn_of(points, j) \in ConcaveTurns}}
        /\ \A i \in 1..Len(points) :
              /\ turn_of(points, i) \in ConcaveTurns \cup ConvexTurns
              /\ ( /\ turn_of(points, i) \in ConvexTurns
                   /\ \A j \in 1..Len(points) : points[j] = points[i] => j = i )
                 => points[i] \notin concave_vertices
              /\ edge_direction(points[i], next_vertex(points, i)) # "none"
                 => Direction(borders[i]) =
                       edge_direction(points[i], next_vertex(points, i))

\* a polygon with a vertex of a concave turn and a vertex of a convex turn
C9_Witness ==
    /\ pc = "built"
    /\ \E i \in 1..Len(points) : turn_of(points, i) = <<"Right", "Up">>
    /\ \E i \in 1..Len(points) :
          /\ turn_of(points, i) = <<"Left", "Up">>
          /\ points[i] \notin concave_vertices
    /\ concave_vertices # {}

\* C10: when solve returns, part1 is the largest (|x1-x2|+1)*(|y1-y2|+1) over
\* the pairs of distinct input vertices, and part2 does not exceed part1; for
\* the octagon of the tests part1 is 50.
C10_Part1IsLargestArea ==
    pc = "done" =>
        /\ \E pr \in IndexPairs(points) : PairArea(points, pr) = answer.part1
        /\ \A pr \in IndexPairs(points) : PairArea(points, pr) <= answer.part1
        /\ answer.part2 <= answer.part1
        /\ points = Octagon => answer.part1 = 50

\* solve has returned for the octagon, whose largest rectangle is out of
\* bounds
C10_Witness ==
    /\ pc = "done"
    /\ points = Octagon
    /\ answer.part1 = 50
    /\ answer.part2 < answer.part1

----------------------------------------------------------------------------
(* Properties of the containment queries *)

\* C11: the rectangle of two points gets the same containment answer and the
\* same area whichever of the two is given first
C11_CornerOrderSymmetric ==
    query.kind = "rect" =>
        LET swapped == Rect(query.rect.bottom_right, query.rect.top_left)
        IN  /\ query.result = rect_in_bounds(swapped, borders, concave_vertices)
            /\ query.rect.area = swapped.area

\* a contained rectangle given from its top-right to its bottom-left corner,
\* in a polygon that has a concave vertex
C11_Witness ==
    /\ query.kind = "rect"
    /\ query.rect.top_left.x > query.rect.bottom_right.x
    /\ query.rect.top_left.y < query.rect.bottom_right.y
    /\ query.result
    /\ concave_vertices # {}

\* C12: the rectangle whose two corners are the same point P has area 1 and
\* is in bounds exactly when P is in bounds
C12_DegenerateRectIsPoint ==
    (query.kind = "rect" /\ query.rect.top_left = query.rect.bottom_right) =>
        /\ query.rect.area = 1
        /\ query.result =
              point_in_bounds(query.rect.top_left, borders, concave_vertices)

\* a one-point rectangle that is in bounds and is not a vertex
C12_Witness ==
    /\ query.kind = "rect"
    /\ query.rect.top_left = query.rect.bottom_right
    /\ query.result
    /\ ~IsVertex(query.rect.top_left, points)

\* the answer the query held in q gets from the polygon as Polygon::new
\* built it
first_answer(q) ==
    LET bs == make_borders(points)
        concave == make_concave_vertices(bs)
    IN  IF q.kind = "point"
        THEN point_in_bounds(q.point, bs, concave)
        ELSE rect_in_bounds(q.rect, bs, concave)

\* C13: a containment query leaves the borders and the concave vertices as
\* they were, and its answer is the one it would get as the first query
C13_QueriesAreRepeatable ==
    [][(pc = "built" /\ asked' > asked) =>
            /\ borders' = borders
            /\ concave_vertices' = concave_vertices
            /\ query'.result = first_answer(query')]_vars

\* a polygon that has answered MaxQueries queries, the last one a point in
\* bounds
C13_Witness ==
    /\ asked = MaxQueries
    /\ query.kind = "point"
    /\ query.result

----------------------------------------------------------------------------
(* Properties of problem01 *)

\* the dial moved one click at a time: the number of clicks that arrive at 0
clicks_at_zero(start, amount) ==
    IF amount >= 0
    THEN Cardinality({k \in 1..amount : (start + k) % 100 = 0})
    ELSE Cardinality({k \in 1..(-amount) : (start - k) % 100 = 0})

\* C14: for every start position and every amount, turn returns the number
\* of single clicks of the rotation that arrive at 0
C14_TurnCountsZeroClicks ==
    turns > 0 =>
        /\ last_turn.outcome = "returned"
        /\ last_turn.zero_clicks =
              clicks_at_zero(last_turn.start, last_turn.amount)

\* the same, for the rotations whose end is an i32 that can be negated
C14_TurnCountsZeroClicksInRange ==
    (turns > 0 /\ ~turn_overflows(last_turn.start, last_turn.amount)) =>
        /\ last_turn.outcome = "returned"
        /\ last_turn.zero_clicks =
              clicks_at_zero(last_turn.start, last_turn.amount)
        /\ position = (last_turn.start + last_turn.amount) % 100

\* a rotation to the left from 0 that passes 0 again
C14_InRangeWitness ==
    /\ turns > 0
    /\ last_turn.start = 0
    /\ last_turn.amount < -100
    /\ last_turn.outcome = "returned"
    /\ last_turn.zero_clicks > 0

----------------------------------------------------------------------------
(* Properties of problem8 *)

\* the junctions joined to those of S by the strings of lights in E
RECURSIVE joined_to(_, _)
joined_to(S, E) ==
    LET more == S \cup {l.end : l \in {m \in E : m.start \in S}}
                  \cup {l.start : l \in {m \in E : m.end \in S}}
    IN  IF more = S THEN S ELSE joined_to(more, E)

\* the circuits that exist once the first count processed strings are made
circuits_after(count) ==
    LET E == {processed[i] : i \in 1..count}
    IN  {joined_to({j}, E) : j \in 1..Len(junctions)}

RECURSIVE largest_product(_, _)
largest_product(sets, count) ==
    IF count = 0 \/ sets = {}
    THEN 1
    ELSE LET big == CHOOSE c \in sets :
                        \A d \in sets : Cardinality(c) >= Cardinality(d)
         IN  Cardinality(big) * largest_product(sets \ {big}, count - 1)

\* the product of the sizes of the three largest circuits after the
\* connections_to_make shortest pairs; pairs that come after the one that
\* joined everything, or that do not exist, change nothing
expected_part1 ==
    LET count == IF connections_to_make < Len(processed)
                 THEN connections_to_make ELSE Len(processed)
    IN  largest_product(circuits_after(count), 3)

\* C15: for every list of two junctions or more and every k, part1 is the
\* product of the sizes of the three largest circuits after the k shortest
\* pairs
C15_Part1AfterKPairs ==
    (pc8 = "done" /\ Len(junctions) >= 2) => part1_answer = expected_part1

\* the same, when the loop reaches the pop that follows the k-th pair
C15_Part1AfterKPairsWhenReached ==
    (pc8 = "done" /\ Len(processed) > connections_to_make) =>
        part1_answer = expected_part1

\* one of the connections_to_make pairs joined nothing, and part1 was
\* computed from three circuits or fewer
C15_WhenReachedWitness ==
    /\ pc8 = "done"
    /\ Len(processed) > connections_to_make
    /\ connections_to_make = MaxConnections
    /\ \E i \in 1..connections_to_make :
          Cardinality(circuits_after(i)) = Cardinality(circuits_after(i - 1))
    /\ part1_answer = 3

\* C16: part2 is the product of the x coordinates of the first pair, in
\* increasing order of distance, whose connection leaves one circuit, and
\* no pair is processed after it
C16_Part2AtLastConnection ==
    (pc8 = "done" /\ Len(junctions) >= 2) =>
        LET m == Len(processed)
            last == processed[m]
        IN  /\ m >= 1
            /\ \A i \in 1..(m - 1) :
                   processed[i].length <= processed[i + 1].length
            /\ \A l \in heap : last.length <= l.length
            /\ Cardinality(circuits_after(m)) = 1
            /\ Cardinality(circuits_after(m - 1)) > 1
            /\ part2_answer = junctions[last.start].location[1]
                              * junctions[last.end].location[1]
            /\ ~ENABLED connect

\* the last connection was made with strings left in the heap and after a
\* pair that joined nothing
C16_Witness ==
    /\ pc8 = "done"
    /\ Len(junctions) = MaxJunctions
    /\ heap # {}
    /\ part2_answer = 2
    /\ \E i \in 1..Len(processed) :
          Cardinality(circuits_after(i)) = Cardinality(circuits_after(i - 1))

----------------------------------------------------------------------------
(* Properties of problem3 *)

\* the number written by the digits of bank at the positions of chosen,
\* in their order in the bank
RECURSIVE number_of(_, _)
number_of(bank, chosen) ==
    IF chosen = {}
    THEN 0
    ELSE LET last == CHOOSE i \in chosen : \A j \in chosen : j <= i
         IN  10 * number_of(bank, chosen \ {last}) + bank[last]

\* the numbers that count digits of the bank can form in their order
subsequence_numbers(bank, count) ==
    {number_of(bank, chosen) :
        chosen \in {c \in SUBSET (1..Len(bank)) : Cardinality(c) = count}}

\* C17: for a bank of at least k digits, maximum_joltage(k) is the largest
\* number that k digits of the bank form in their original order
C17_MaximumJoltageIsBestSubsequence ==
    (pc3 = "done" /\ Len(joltages) >= max_batteries) =>
        /\ joltage \in subsequence_numbers(joltages, max_batteries)
        /\ \A n \in subsequence_numbers(joltages, max_batteries) :
               n <= joltage

\* a bank whose best number does not use its last digits and repeats a digit
C17_Witness ==
    /\ pc3 = "done"
    /\ max_batteries = MaxBatteries
    /\ Len(joltages) = MaxBankLen
    /\ selected # SubSeq(joltages, MaxBankLen - MaxBatteries + 1, MaxBankLen)
    /\ selected[1] = selected[2]
    /\ joltage > 0

----------------------------------------------------------------------------
(* Properties of problem5 *)

\* every input range has its start at or below its end
well_formed_ranges == \A i \in 1..Len(ranges) : ranges[i].start <= ranges[i].end

\* C18: after load of a non-empty list of ranges in any order,
\* is_ingredient_fresh(id) is true exactly when id lies in one of the input
\* ranges, bounds included
C18_FreshIffInSomeRange ==
    (pc5 = "loaded" /\ fresh_check.asked /\ well_formed_ranges) =>
        (fresh_check.fresh <=>
            \E i \in 1..Len(ranges) : contains(ranges[i], fresh_check.id))

\* an id that is fresh only by the outer of two nested ranges, the inner one
\* listed after the outer one, with a third range apart from them
C18_Witness ==
    /\ pc5 = "loaded"
    /\ fresh_check.asked
    /\ fresh_check.fresh
    /\ well_formed_ranges
    /\ Len(ranges) = MaxRanges
    /\ Len(fresh_ingredients) = 2
    /\ \E i, j \in 1..Len(ranges) :
          /\ i < j
          /\ ranges[i].start < ranges[j].start
          /\ ranges[j].end < ranges[i].end
          /\ fresh_check.id = ranges[i].end

----------------------------------------------------------------------------
(* Properties of problem11 *)

\* every directed path from the device with this label to "out", as the
\* sequence of its labels
RECURSIVE all_paths(_, _)
all_paths(ds, label) ==
    IF label = "out"
    THEN {<<"out">>}
    ELSE UNION {{<<label>> \o p : p \in all_paths(ds, o)} :
                   o \in outputs(ds, label)}

visits(path, label) == \E i \in 1..Len(path) : path[i] = label

\* C19: on an acyclic device graph part1 is the number of paths from "you"
\* to "out" and part2 the number of paths from "svr" to "out" that visit
\* both "dac" and "fft"
C19_PathCounts ==
    pc11 = "done" =>
        /\ paths_answer.part1 =
              IF "you" \in defined_labels(devices)
              THEN Cardinality(all_paths(devices, "you"))
              ELSE 0
        /\ paths_answer.part2 =
              IF "svr" \in defined_labels(devices)
              THEN Cardinality({p \in all_paths(devices, "svr") :
                                   visits(p, "dac") /\ visits(p, "fft")})
              ELSE 0

\* some paths from "svr" visit both, some do not, and a device is reached
\* more than once
C19_Witness ==
    /\ pc11 = "done"
    /\ paths_answer.part2 >= 2
    /\ Cardinality(all_paths(devices, "svr")) > paths_answer.part2
    /\ \E p \in all_paths(devices, "svr") : visits(p, "fft") /\ ~visits(p, "dac")

----------------------------------------------------------------------------
(* Properties of problem4 *)

\* the rolls among cells that touch the cell c
adjacent_rolls(cells, c) ==
    {n \in cells : /\ n # c
                   /\ n[1] - c[1] \in -1..1
                   /\ n[2] - c[2] \in -1..1}

movable(cells) ==
    {c \in cells :
        Cardinality(adjacent_rolls(cells, c)) < TOO_MANY_NEIGHBORS_TO_MOVE}

\* the rolls left when, round after round, every roll that can move is
\* taken away at once
RECURSIVE left_after_rounds(_)
left_after_rounds(cells) ==
    IF movable(cells) = {}
    THEN cells
    ELSE left_after_rounds(cells \ movable(cells))

\* what is left to do of the second loop of solve: 10 for every roll still
\* in the diagram, 1 for every cell still to scan, and for every call in
\* progress 1 for its return and 1 for every neighbour it has still to visit
RECURSIVE turns_left(_, _)
turns_left(stack, n) ==
    IF n = 0 THEN 0 ELSE (10 - stack[n].i) + turns_left(stack, n - 1)

cascade_rank ==
    10 * Cardinality(diagram.rolls)
    + (diagram.width * diagram.height - scan)
    + turns_left(calls, Len(calls))

\* every step of the cascade brings it nearer to its end
cascade_progress ==
    (pc4 = "removing" /\ pc4' = "removing") =>
        /\ cascade_rank' < cascade_rank
        /\ cascade_rank' >= 0

\* the outcome of solve
cascade_result ==
    pc4 = "done" =>
        /\ can_eventually_remove = Len(removed_rolls)
        /\ \A i, j \in 1..Len(removed_rolls) :
               i # j => removed_rolls[i] # removed_rolls[j]
        /\ diagram.rolls = left_after_rounds(input_rolls)
        /\ can_eventually_remove =
              Cardinality(input_rolls) - Cardinality(left_after_rounds(input_rolls))
        /\ movable(diagram.rolls) = {}
        /\ can_initially_remove = Cardinality(movable(input_rolls))
        /\ can_initially_remove <= can_eventually_remove

\* C20: part2 is the number of rolls taken away by the repeated removal of
\* the rolls with fewer than 4 adjacent rolls: the cascade terminates, every
\* roll is removed at most once, the rolls left are those the round-by-round
\* removal leaves, none of them can move, and part1 counts the rolls that
\* can move at the start and is at most part2
C20_CascadeRemovesAllMovable ==
    /\ []cascade_result
    /\ [][cascade_progress]_vars

\* some rolls stay, and more rolls were removed than could move at the start
C20_Witness ==
    /\ pc4 = "done"
    /\ diagram.rolls # {}
    /\ can_initially_remove > 0
    /\ can_eventually_remove > can_initially_remove

----------------------------------------------------------------------------
(* Properties of problem9: the part-2 search *)

\* C24: for every simple rectilinear polygon of four vertices or more, some
\* rectangle of two distinct vertices passes rect_in_bounds, so solve never
\* ends in the unwrap of an exhausted candidate list.
C24_SearchFindsCandidate ==
    IsSimplePolygon(points) => ~(pc = "panic" /\ panic = "unwrap")

C24_Witness ==
    /\ pc = "done"
    /\ IsSimplePolygon(points)
    /\ ~Clockwise(points)
    /\ Len(points) >= 6
    /\ answer.part2 >= 2

----------------------------------------------------------------------------
(* Properties of problem9: corners and perimeter *)

rect_corners(rect) ==
    {rect.top_left, rect.bottom_right,
     Point(rect.bottom_right.x, rect.top_left.y),
     Point(rect.top_left.x, rect.bottom_right.y)}

corners_pass(rect) ==
    \A c \in rect_corners(rect) : point_in_bounds(c, borders, concave_vertices)

\* C23: the four corners do not decide rect_in_bounds. For a rectangle between
\* two vertices of a simple rectilinear polygon whose four corners all pass
\* point_in_bounds, rect_in_bounds is false exactly when some other point of
\* the perimeter fails point_in_bounds; such a rectangle exists (the witness),
\* so corner-only testing is insufficient.
C23_CornersDoNotDecide ==
    ( /\ query.kind = "rect"
      /\ IsSimplePolygon(points)
      /\ IsVertex(query.rect.top_left, points)
      /\ IsVertex(query.rect.bottom_right, points)
      /\ corners_pass(query.rect) )
    => ( ~query.result
         <=> \E p \in perimeter_points(query.rect) \ rect_corners(query.rect) :
                ~point_in_bounds(p, borders, concave_vertices) )

\* a clockwise polygon with a notch: the four corners are inside or on the
\* boundary and pass, an edge of the rectangle leaves the polygon, and
\* rect_in_bounds is false
C23_Witness ==
    /\ query.kind = "rect"
    /\ IsSimplePolygon(points)
    /\ Clockwise(points)
    /\ IsVertex(query.rect.top_left, points)
    /\ IsVertex(query.rect.bottom_right, points)
    /\ corners_pass(query.rect)
    /\ \A c \in rect_corners(query.rect) : InsideOrOn(c, points)
    /\ ~query.result
    /\ \E p \in perimeter_points(query.rect) \ rect_corners(query.rect) :
          /\ ~InsideOrOn(p, points)
          /\ ~point_in_bounds(p, borders, concave_vertices)

----------------------------------------------------------------------------
(* Properties of shared.rs: NumericPartitionIterator *)

\* the number of base-10 digits of n, none for 0
RECURSIVE digit_count(_)
digit_count(n) == IF n = 0 THEN 0 ELSE 1 + digit_count(n \div 10)

\* ys[from] + 10^size * (ys[from + 1] + 10^size * (... + 10^size * rest)):
\* the i-th value (from 0) times 10^(size * i), and rest above them all
RECURSIVE groups_value(_, _, _, _)
groups_value(ys, size, from, rest) ==
    IF from > Len(ys) THEN rest
    ELSE ys[from] + (10 ^ size) * groups_value(ys, size, from + 1, rest)

yields_are_digit_groups ==
    /\ pc_iter # "panic"
    /\ \A i \in 1..Len(yielded) : yielded[i] < 10 ^ partition_size
    /\ groups_value(yielded, partition_size, 1, remaining) = to_split
    /\ Len(yielded) <= digit_count(to_split)
    /\ pc_iter = "ended" =>
          /\ remaining = 0
          /\ groups_value(yielded, partition_size, 1, 0) = to_split
    /\ (pc_iter = "iterating" /\ remaining = 0) =>
          Len(yielded) = IF partition_size = 0 THEN 0
                         ELSE (digit_count(to_split) + partition_size - 1)
                                 \div partition_size

\* C22: NumericPartitionIterator::new(n, size) yields the base-10 digit
\* groups of n from right to left: every value is below 10^size, the i-th
\* value times 10^(size*i) summed over the yields (with what remains above
\* them) is n, there are no more yields than n has digits, and the iterator
\* ends with None exactly when nothing remains.
C22_YieldsDigitGroups ==
    pc_iter # "new" => yields_are_digit_groups

\* the same for partition sizes of one digit or more whose power of ten is a
\* usize
C22_YieldsDigitGroupsOfSize ==
    ( /\ pc_iter # "new"
      /\ partition_size >= 1
      /\ 10 ^ partition_size <= usize_max )
    => yields_are_digit_groups

C22_OfSizeWitness ==
    /\ pc_iter = "ended"
    /\ partition_size = 2
    /\ Len(yielded) = 2
    /\ digit_count(to_split) = 3

----------------------------------------------------------------------------
(* Properties of problem7 *)

start_cells == cells_with(rows, "S")

start_cell == CHOOSE rc \in start_cells : TRUE

\* one 'S', no two splitters side by side, none in the first or last column
well_formed_grid ==
    /\ Cardinality(start_cells) = 1
    /\ \A rc \in cells_with(rows, "^") :
          /\ rc[2] > 1
          /\ rc[2] < Len(rows[rc[1]])
          /\ rows[rc[1]][rc[2] + 1] # "^"

\* the downward paths from 'S' to the last row: the column of the path in
\* each row from the row of 'S' on; where the cell below holds a splitter the
\* path moves one column left or one column right, else it goes straight down
downward_paths ==
    LET first == start_cell[1]
        last == Len(rows)
    IN  {p \in [first..last -> 1..Len(rows[1])] :
            /\ p[first] = start_cell[2]
            /\ \A r \in (first + 1)..last :
                  IF rows[r][p[r - 1]] = "^"
                  THEN p[r] \in {p[r - 1] - 1, p[r - 1] + 1}
                  ELSE p[r] = p[r - 1]}

\* the splitters some path comes into from above
splitters_reached_by(paths) ==
    {rc \in cells_with(rows, "^") :
        /\ rc[1] > start_cell[1]
        /\ \E p \in paths : p[rc[1] - 1] = rc[2]}

\* C21: for a grid with one 'S', no two horizontally adjacent splitters and
\* no splitter in the first or last column, after all rows are analysed
\* splits() is the number of splitters reached by at least one beam and
\* possibilities() is the number of distinct downward paths from 'S' to the
\* last row (column by column: possible_timelines counts the paths that end
\* there), and analyze did not panic.
C21_SplitsAndPossibilities ==
    well_formed_grid =>
        LET paths == downward_paths
        IN  /\ pc7 = "rows"
            /\ splits = Cardinality(splitters_reached_by(paths))
            /\ possibilities = Cardinality(paths)
            /\ \A c \in 1..Len(possible_timelines) :
                  possible_timelines[c] =
                      Cardinality({p \in paths : p[Len(rows)] = c})

\* two beams meet in one column and come into a splitter together
C21_Witness ==
    /\ well_formed_grid
    /\ Len(rows) = MaxGridRows
    /\ splits = 4
    /\ possibilities = 6
    /\ LET paths == downward_paths
       IN  \E rc \in splitters_reached_by(paths) :
              Cardinality({[r \in start_cell[1]..(rc[1] - 1) |-> p[r]] :
                              p \in {q \in paths : q[rc[1] - 1] = rc[2]}}) = 2

====
